---- MODULE Spec2Model ----
(***************************************************************************)
(* A model of keet.py: the daily-active-user pipeline of class Keet        *)
(* (prep_data: group by visit_date, count distinct ids, parse the dates,   *)
(* extrapolate by a polynomial fit, format the rows) and of the script     *)
(* that drives it (prep_data, init_db, make_table, load_to_db).            *)
(*                                                                         *)
(* A pandas Series is a sequence of records [idx, val]: the index label    *)
(* and the value of each entry, in the Series' own order (an index may be  *)
(* unsorted and may hold a label twice).  A parsed date is the number of   *)
(* the day, day 1 being 2021-01-01.  A date as the CSV file spells it is a *)
(* pair <<spelling, day>>:                                                 *)
(*     <<"plain", 2>>   the text  1/2/2021                                 *)
(*     <<"padded", 2>>  the text  01/02/2021                               *)
(*     <<"bad", 0>>     the text  someday    (no date)                     *)
(***************************************************************************)
EXTENDS Integers, Sequences, FiniteSets, TLC

\* ------------------------------------------------------------------ bounds
\* The CSV file's dates are 2021-01-01 .. 2021-01-MaxDay.
MaxDay == 4
\* The CSV file holds at most MaxRows rows.
MaxRows == 4
\* A Series handed directly to interpolate holds at most MaxLen entries, with
\* labels among the days 1 .. MaxLabel.
MaxLen == 3
MaxLabel == 3
\* interpolate is called directly with days in 0 .. MaxHorizon.
MaxHorizon == 2

\* ------------------------------------------------------- program constants
\* prep_data calls Keet.interpolate(dau, 1, 3).
DAYS == 1
POLY_N == 3

\* The user ids of the CSV file.
IdList == <<"u1", "u2">>
Ids == {IdList[i] : i \in DOMAIN IdList}

\* ---------------------------------------------------------------- helpers
Range(f) == {f[i] : i \in DOMAIN f}

\* Op(v), with v computed once, before Op uses it (LET would compute it again
\* at every use inside an index or a field selection).
Bind(v, Op(_)) == CHOOSE r \in {Op(u) : u \in {v}} : TRUE

RECURSIVE Pow(_, _)
Pow(b, e) == IF e = 0 THEN 1 ELSE b * Pow(b, e - 1)

RECURSIVE SumSeq(_)
SumSeq(q) == IF q = <<>> THEN 0 ELSE Head(q) + SumSeq(Tail(q))

\* The elements of a set of integers, ascending.
RECURSIVE Ascending(_)
Ascending(S) ==
    IF S = {} THEN <<>>
    ELSE LET m == CHOOSE a \in S : \A b \in S : a <= b
         IN  <<m>> \o Ascending(S \ {m})

\* ---------------------------------------------------------- dates and text
\* The dates the CSV file may spell: every day plainly, the first day also
\* zero-padded, and one text that is no date.
RawDates ==
    {<<"plain", d>> : d \in 1..MaxDay} \cup {<<"padded", 1>>, <<"bad", 0>>}

\* The place of a spelling in the order of Python strings, which is the order
\* groupby sorts its keys in: "01/01/2021" < "1/1/2021" < "1/2/2021" < "someday".
RawKey(raw) ==
    CASE raw[1] = "padded" -> raw[2]
      [] raw[1] = "plain"  -> 100 + raw[2]
      [] OTHER             -> 1000

\* pd.DatetimeIndex on one label: the day it denotes, or no date at all.
Parseable(raw) == raw[1] \in {"plain", "padded"}

ToDatetime(raw) == raw[2]

\* Days of the months of 2021 (day 1 is 2021-01-01).
MonthLen == <<31, 28, 31, 30, 31, 30, 31, 31, 30, 31, 30, 31>>

RECURSIVE MonthOf(_, _)
MonthOf(dayOfYear, m) ==
    IF m = 12 \/ dayOfYear <= MonthLen[m]
    THEN <<m, dayOfYear>>
    ELSE MonthOf(dayOfYear - MonthLen[m], m + 1)

\* Timestamp.year, .month, .day of a day number (within 2021).
Year(date) == 2021
Month(date) == MonthOf(date, 1)[1]
Day(date) == MonthOf(date, 1)[2]

\* ------------------------------------------------------------------ Series
\* Series.sort_index(): the entries in ascending order of their labels, entries
\* of equal label keeping their order.
RECURSIVE InsertSorted(_, _)
InsertSorted(q, e) ==
    IF q = <<>> THEN <<e>>
    ELSE IF q[Len(q)].idx <= e.idx THEN Append(q, e)
    ELSE Append(InsertSorted(SubSeq(q, 1, Len(q) - 1), e), q[Len(q)])

RECURSIVE SortIndex(_)
SortIndex(s) ==
    IF s = <<>> THEN <<>>
    ELSE InsertSorted(SortIndex(SubSeq(s, 1, Len(s) - 1)), s[Len(s)])

\* s[label] = value: the entry of that label is overwritten, and a label the
\* index does not hold is appended at the end.
SetItem(s, label, value) ==
    IF \E i \in DOMAIN s : s[i].idx = label
    THEN [i \in DOMAIN s |-> IF s[i].idx = label
                             THEN [idx |-> label, val |-> value] ELSE s[i]]
    ELSE Append(s, [idx |-> label, val |-> value])

IndexOf(s) == [i \in DOMAIN s |-> s[i].idx]
ValuesOf(s) == [i \in DOMAIN s |-> s[i].val]

\* -------------------------------------------------------------- aggregation
\* data.groupby('visit_date').id.nunique(): one entry per distinct visit_date
\* text, in the order of the texts, holding the number of distinct ids of the
\* rows with that text.
GroupByNunique(df) ==
    LET keys  == {RawKey(df[i].visit_date) : i \in DOMAIN df}
        order == Ascending(keys)
        raw(k) == CHOOSE r \in {df[i].visit_date : i \in DOMAIN df} : RawKey(r) = k
    IN  [n \in DOMAIN order |->
            [idx |-> raw(order[n]),
             val |-> Cardinality({df[i].id : i \in
                        {j \in DOMAIN df : df[j].visit_date = raw(order[n])}})]]

\* dau.index = pd.DatetimeIndex(dau.index): every label parsed, entry by entry.
ParseIndex(s) == [i \in DOMAIN s |-> [idx |-> ToDatetime(s[i].idx), val |-> s[i].val]]

\* pd.DatetimeIndex raises ValueError when a label is no date.
ParseFails(s) == \E i \in DOMAIN s : ~Parseable(s[i].idx)

\* --------------------------------------------------------- polynomial fit
\* The ascending sequences of r numbers among lo .. hi, as a sequence.
RECURSIVE Combos(_, _, _)
Combos(lo, hi, r) ==
    IF r = 0 THEN <<(<<>>)>>
    ELSE IF hi - lo + 1 < r THEN <<>>
    ELSE LET rest == Combos(lo + 1, hi, r - 1)
         IN  [i \in 1..Len(rest) |-> <<lo>> \o rest[i]] \o Combos(lo + 1, hi, r)

\* The sum of a sequence of pairs, component by component.
RECURSIVE SumPairs(_)
SumPairs(q) ==
    IF q = <<>> THEN <<0, 0>>
    ELSE LET t == SumPairs(Tail(q))
         IN  <<Head(q)[1] + t[1], Head(q)[2] + t[2]>>

\* The determinant of a square matrix (a sequence of rows), by its first row.
RECURSIVE Det(_)
Det(M) ==
    IF Len(M) = 1 THEN M[1][1]
    ELSE LET n == Len(M)
             Minor(k) == [i \in 1..(n - 1) |->
                            [j \in 1..(n - 1) |-> M[i + 1][IF j < k THEN j ELSE j + 1]]]
             term == [k \in 1..n |->
                        (IF k % 2 = 1 THEN 1 ELSE -1) * M[1][k] * Det(Minor(k))]
         IN  SumSeq(term)

\* np.polyfit scales column j of the Vandermonde matrix of x by the root of
\* ColScale2(x, j), the sum of the squares of the column.
ColScale2(x, j) == SumSeq([i \in DOMAIN x |-> Pow(x[i], 2 * j)])

\* A column of scale 0 (every offset 0 and a degree of 1 or more) is divided by
\* 0: the matrix handed to lstsq holds NaN and the fit is not finite.
FitNonFinite(x, deg) == \E j \in 0..deg : ColScale2(x, j) = 0

\* np.poly1d(np.polyfit(x, y, deg))(at) as the fraction <<numerator,
\* denominator>>, the denominator positive.  lstsq returns the least-squares
\* solution of least norm of the scaled system, unique also when the matrix has
\* fewer distinct offsets than columns (polyfit then only warns, RankWarning).
\* Its value at `at` is the mean of the values the solutions of the square
\* subsystems take there (rank-many rows I, rank-many columns J, solved by
\* Cramer's rule), each weighted by the squared determinant of the subsystem
\* in the scaled matrix; Omega(J, 0), the product of the squared scales of the
\* columns left out of J, brings the weights to a common denominator.
PolyVal(x, y, deg, at) ==
    LET n       == Len(x)
        rank    == IF Cardinality(Range(x)) < deg + 1
                   THEN Cardinality(Range(x)) ELSE deg + 1
        rowSets == Combos(1, n, rank)
        colSets == Combos(0, deg, rank)
        scale2  == [j \in 0..deg |-> ColScale2(x, j)]
        RECURSIVE Omega(_, _)
        Omega(J, j) ==
            IF j > deg THEN 1
            ELSE IF j \in Range(J) THEN Omega(J, j + 1)
            ELSE scale2[j] * Omega(J, j + 1)
        Term(I, J) ==
            LET sub == [a \in 1..rank |-> [b \in 1..rank |-> Pow(x[I[a]], J[b])]]
                new == [b \in 1..rank |-> Pow(at, J[b])]
                D   == Det(sub)
            IN  IF D = 0 THEN <<0, 0>>
                ELSE LET om == Omega(J, 0)
                     IN  <<(om * D) *
                           SumSeq([k \in 1..rank |->
                                      y[I[k]] * Det([sub EXCEPT ![k] = new])]),
                           om * (D * D)>>
    IN  SumPairs([a \in 1..Len(rowSets) |->
            SumPairs([b \in 1..Len(colSets) |-> Term(rowSets[a], colSets[b])])])

\* int(round(v)) of the fraction v = num / den, den positive.  An exact half is
\* decided by the rounding error of the floating-point fit, which falls either
\* way (half).
RoundInt(num, den, half) ==
    LET q   == num \div den
        rem == num - q * den
    IN  IF 2 * rem < den THEN q
        ELSE IF 2 * rem > den THEN q + 1
        ELSE IF half = "up" THEN q + 1 ELSE q

\* What the numpy build does with a fit that is not finite:
\*   "nan"                    polyfit returns NaN coefficients, and int(round(v))
\*                            of the NaN it predicts raises ValueError;
\*   "LinAlgError(ValueError)" lstsq raises LinAlgError (SVD did not converge),
\*                            a subclass of ValueError;
\*   "LinAlgError(Exception)" lstsq raises LinAlgError, no subclass of ValueError.
NonFiniteOutcomes == {"nan", "LinAlgError(ValueError)", "LinAlgError(Exception)"}
Builds == [nonfinite : NonFiniteOutcomes, half : {"down", "up"}]

\* except ValueError catches these.
IsValueError(e) == e \in {"ValueError", "LinAlgError(ValueError)"}

\* ------------------------------------------------------------- interpolate
\* A loop that evaluates the polynomial i days after the first date instead of
\* i days after the last one.
RECURSIVE ApplyPredictionFromFirst(_, _, _, _, _, _, _)
ApplyPredictionFromFirst(s, x, y, poly_n, i, days, half) ==
    IF i > days THEN s
    ELSE Bind(PolyVal(x, y, poly_n, i), LAMBDA v :
         Bind(SetItem(s, s[Len(s)].idx + i, RoundInt(v[1], v[2], half)), LAMBDA t :
         ApplyPredictionFromFirst(t, x, y, poly_n, i + 1, days, half)))

\* The loop of interpolate from iteration i on: the value the polynomial takes
\* i days after the last offset is stored under the label i days after the
\* last label the Series holds by then.
RECURSIVE ApplyPrediction(_, _, _, _, _, _, _)
ApplyPrediction(s, x, y, poly_n, i, days, half) ==
    IF i > days THEN s
    ELSE Bind(PolyVal(x, y, poly_n, x[Len(x)] + i), LAMBDA v :
         Bind(SetItem(s, s[Len(s)].idx + i, RoundInt(v[1], v[2], half)), LAMBDA t :
         ApplyPrediction(t, x, y, poly_n, i + 1, days, half)))

\* Keet.interpolate(s, days, poly_n) under a numpy build: the Series object s as
\* the call leaves it (sorted and extended in place; it is also what the call
\* returns) and the exception the call raises, "none" when it returns.
Interpolate(s, days, poly_n, build) ==
    Bind(SortIndex(s), LAMBDA sorted :
    IF sorted = <<>> THEN [s |-> sorted, exc |-> "IndexError"]
    ELSE Bind([i \in DOMAIN sorted |-> sorted[i].idx - sorted[1].idx], LAMBDA x :
         Bind(ValuesOf(sorted), LAMBDA y :
         IF FitNonFinite(x, poly_n)
         THEN IF build.nonfinite = "nan"
              THEN [s |-> sorted, exc |-> IF days >= 1 THEN "ValueError" ELSE "none"]
              ELSE [s |-> sorted, exc |-> build.nonfinite]
         ELSE [s |-> ApplyPrediction(sorted, x, y, poly_n, 1, days, build.half),
               exc |-> "none"])))

\* --------------------------------------------------------------- formatting
\* A DataFrame whose observed column is true on every row.
FormatRowsAllObserved(dau, observed_dates) ==
    [i \in DOMAIN dau |->
        [year     |-> Year(dau[i].idx),
         month    |-> Month(dau[i].idx),
         day      |-> Day(dau[i].idx),
         observed |-> TRUE,
         count    |-> dau[i].val]]

\* A DataFrame whose month and day columns are exchanged.
FormatRowsDayFirst(dau, observed_dates) ==
    [i \in DOMAIN dau |->
        [year     |-> Year(dau[i].idx),
         month    |-> Day(dau[i].idx),
         day      |-> Month(dau[i].idx),
         observed |-> dau[i].idx \in Range(observed_dates),
         count    |-> dau[i].val]]

\* The DataFrame of prep_data: one row per entry of dau, in dau's order.
FormatRows(dau, observed_dates) ==
    [i \in DOMAIN dau |->
        [year     |-> Year(dau[i].idx),
         month    |-> Month(dau[i].idx),
         day      |-> Day(dau[i].idx),
         observed |-> dau[i].idx \in Range(observed_dates),
         count    |-> dau[i].val]]

\* ------------------------------------------------------------------- state
VARIABLES
    build,           \* the numpy build the program runs on
    \* the script (__main__): k = Keet(...); k.prep_data(); k.init_db(...); ...
    data,            \* self.data: the rows of the CSV file
    pc,              \* the statement of __main__ to run next
    dau,             \* prep_data's local dau as prep_data leaves it, <<>> before
    observed_dates,  \* prep_data's local observed_dates: <<list>>, <<>> unbound
    data_prepared,   \* self.data_prepared: <<rows>>, <<>> when the attribute is not set
    log,             \* the records the logger has written
    exc,             \* the exception that ended __main__, "none" without one
    conn,            \* self.conn: "none" or "open"
    table,           \* table daily_user_counts: <<rows>>, <<>> when it does not exist
    \* a direct call of the static method: r = Keet.interpolate(s, days, poly_n)
    s,               \* the Series object the caller passes
    s0,              \* the value of that object before the call
    days,            \* the argument days
    poly_n,          \* the argument poly_n
    ipc,             \* "idle", "call", "format", "end"
    ret,             \* <<the Series returned>>, <<>> when nothing was returned
    raised,          \* the exception the call raised, "none" without one
    rows             \* the returned Series formatted as prep_data formats dau

vars == <<build, data, pc, dau, observed_dates, data_prepared, log, exc, conn,
          table, s, s0, days, poly_n, ipc, ret, raised, rows>>

scriptVars == <<data, pc, dau, observed_dates, data_prepared, log, exc, conn, table>>
callVars == <<s, s0, days, poly_n, ipc, ret, raised, rows>>

\* ------------------------------------------------------------------- inputs
\* The rows a CSV file may hold.
Rows == [visit_date : RawDates, id : Ids]

RowKey(row) ==
    RawKey(row.visit_date) * 10 + (CHOOSE i \in DOMAIN IdList : IdList[i] = row.id)

\* The CSV files of k rows, their rows in the order of (text, id): neither
\* groupby nor nunique depends on the order of the rows.
RECURSIVE FilesOfLen(_)
FilesOfLen(k) ==
    IF k = 0 THEN {<<>>}
    ELSE {Append(p[1], p[2]) :
            p \in {q \in FilesOfLen(k - 1) \X Rows :
                     q[1] = <<>> \/ RowKey(q[1][Len(q[1])]) <= RowKey(q[2])}}

CsvFiles == UNION {FilesOfLen(k) : k \in 0..MaxRows}

\* The Series of the concrete scenario: 3, 5 and 4 distinct ids on 2021-01-01,
\* 2021-01-02 and 2021-01-03.
ScenarioSeries ==
    <<[idx |-> 1, val |-> 3], [idx |-> 2, val |-> 5], [idx |-> 3, val |-> 4]>>

\* The Series a caller may pass: no label twice, the entries in any order, the
\* values those nunique gives (1 .. the number of ids); and the scenario.
SeriesOfLen(k) ==
    {q \in [1..k -> [idx : 1..MaxLabel, val : 1..Cardinality(Ids)]] :
        \A i, j \in 1..k : i # j => q[i].idx # q[j].idx}

InputSeries == UNION {SeriesOfLen(k) : k \in 0..MaxLen} \cup {ScenarioSeries}

\* -------------------------------------------------------------- the script
Logged(level, msg) == [level |-> level, msg |-> msg]

\* Keet.prep_data(self) on self.data under a numpy build: what it leaves in its
\* locals and in self.data_prepared, what it logs, and the exception it raises.
PrepDataOutcome(df, b) ==
    Bind(GroupByNunique(df), LAMBDA grouped :
    IF ParseFails(grouped)
    THEN \* line 55 raises ValueError, which line 58 catches and line 59 logs; dau
         \* keeps its text index and line 61, dau.index.year, raises
         \* AttributeError.
         [dau |-> grouped, observed_dates |-> <<>>, data_prepared |-> <<>>,
          log |-> <<Logged("ERROR", "date format error")>>,
          exc |-> "AttributeError"]
    ELSE Bind(ParseIndex(grouped), LAMBDA parsed :
         Bind(IndexOf(parsed), LAMBDA obs :
         Bind(Interpolate(parsed, DAYS, POLY_N, b), LAMBDA r :
         IF r.exc = "none"
         THEN [dau |-> r.s, observed_dates |-> <<obs>>,
               data_prepared |-> <<FormatRows(r.s, obs)>>,
               log |-> <<Logged("INFO", "data processing complete")>>,
               exc |-> "none"]
         ELSE IF IsValueError(r.exc)
         THEN \* caught by line 58 and logged by line 59: dau is still the object
              \* the call sorted (and extended) in place
              [dau |-> r.s, observed_dates |-> <<obs>>,
               data_prepared |-> <<FormatRows(r.s, obs)>>,
               log |-> <<Logged("ERROR", "date format error"),
                         Logged("INFO", "data processing complete")>>,
               exc |-> "none"]
         ELSE [dau |-> r.s, observed_dates |-> <<obs>>,
               data_prepared |-> <<>>, log |-> <<>>, exc |-> r.exc]))))

PrepData ==
    /\ pc = "prep_data"
    /\ \E o \in {PrepDataOutcome(data, build)} :
           /\ dau' = o.dau
           /\ observed_dates' = o.observed_dates
           /\ data_prepared' = o.data_prepared
           /\ log' = log \o o.log
           /\ exc' = o.exc
           /\ pc' = IF o.exc = "none" THEN "init_db" ELSE "crashed"
    /\ UNCHANGED <<build, data, conn, table>>
    /\ UNCHANGED callVars

InitDb ==
    /\ pc = "init_db"
    /\ conn' = "open"
    /\ log' = Append(log, Logged("INFO", "database created"))
    /\ pc' = "make_table"
    /\ UNCHANGED <<build, data, dau, observed_dates, data_prepared, exc, table>>
    /\ UNCHANGED callVars

\* CREATE TABLE IF NOT EXISTS on the fresh connection.
MakeTable ==
    /\ pc = "make_table"
    /\ table' = IF table = <<>> THEN <<(<<>>)>> ELSE table
    /\ log' = Append(log, Logged("INFO", "table daily_user_counts created"))
    /\ pc' = "load_to_db"
    /\ UNCHANGED <<build, data, dau, observed_dates, data_prepared, exc, conn>>
    /\ UNCHANGED callVars

\* to_sql(if_exists='replace'): the table holds exactly the prepared rows; any
\* exception is caught and logged.
LoadToDb ==
    /\ pc = "load_to_db"
    /\ IF data_prepared = <<>>
       THEN /\ log' = Append(log, Logged("ERROR", ":("))
            /\ table' = table
       ELSE /\ log' = Append(log, Logged("INFO", "data loaded to SQLite"))
            /\ table' = <<data_prepared[1]>>
    /\ pc' = "done"
    /\ UNCHANGED <<build, data, dau, observed_dates, data_prepared, exc, conn>>
    /\ UNCHANGED callVars

CallsIdle ==
    /\ s = <<>> /\ s0 = <<>> /\ days = 0 /\ poly_n = 0 /\ ipc = "idle"
    /\ ret = <<>> /\ raised = "none" /\ rows = <<>>

Init ==
    /\ build \in Builds
    /\ data \in CsvFiles
    /\ pc = "prep_data"
    /\ dau = <<>> /\ observed_dates = <<>> /\ data_prepared = <<>>
    /\ log = <<>> /\ exc = "none" /\ conn = "none" /\ table = <<>>
    /\ CallsIdle

Next == PrepData \/ InitDb \/ MakeTable \/ LoadToDb

Spec == Init /\ [][Next]_vars

\* ------------------------------------------------- interpolate, called alone
ScriptIdle ==
    /\ data = <<>> /\ pc = "idle" /\ dau = <<>> /\ observed_dates = <<>>
    /\ data_prepared = <<>> /\ log = <<>> /\ exc = "none" /\ conn = "none"
    /\ table = <<>>

InitInterp ==
    /\ build \in Builds
    /\ s \in InputSeries /\ s0 = s
    /\ days \in 0..MaxHorizon
    /\ poly_n \in 0..POLY_N
    /\ ipc = "call"
    /\ ret = <<>> /\ raised = "none" /\ rows = <<>>
    /\ ScriptIdle

\* r = Keet.interpolate(s, days, poly_n): the object s is sorted and extended in
\* place, and it is the object returned.
CallInterpolate ==
    /\ ipc = "call"
    /\ \E r \in {Interpolate(s, days, poly_n, build)} :
           /\ s' = r.s
           /\ raised' = r.exc
           /\ ret' = IF r.exc = "none" THEN <<r.s>> ELSE <<>>
           /\ ipc' = IF r.exc = "none" THEN "format" ELSE "end"
    /\ UNCHANGED <<build, s0, days, poly_n, rows>>
    /\ UNCHANGED scriptVars

\* The rows of the returned Series, the observed dates being the labels of the
\* Series before the call (prep_data, lines 56 and 60-66).
FormatResult ==
    /\ ipc = "format"
    /\ rows' = FormatRows(ret[1], IndexOf(s0))
    /\ ipc' = "end"
    /\ UNCHANGED <<build, s, s0, days, poly_n, ret, raised>>
    /\ UNCHANGED scriptVars

NextInterp == CallInterpolate \/ FormatResult

SpecInterp == InitInterp /\ [][NextInterp]_vars

\* ------------------------------------------------------------------ claims
\* The calendar dates the rows of the file spell, and the ids seen on a date.
InputDates ==
    {ToDatetime(data[i].visit_date) :
        i \in {j \in DOMAIN data : Parseable(data[j].visit_date)}}

AllParseable == \A i \in DOMAIN data : Parseable(data[i].visit_date)

IdsOn(d) ==
    {data[i].id : i \in {j \in DOMAIN data : Parseable(data[j].visit_date)
                                              /\ ToDatetime(data[j].visit_date) = d}}

\* The day number of the date (2021, m, d).
RECURSIVE DaysBefore(_)
DaysBefore(m) == IF m = 1 THEN 0 ELSE MonthLen[m - 1] + DaysBefore(m - 1)

Ordinal(row) == DaysBefore(row.month) + row.day

\* C1: once prep_data has run on a file whose dates all parse, the aggregated
\* series (its index is what line 56 keeps in observed_dates) has exactly one
\* entry for every calendar date of the file and none for any other date, and the
\* entry of date d in dau counts the distinct ids of the rows of date d.
C1_OneEntryPerDate ==
    (pc # "prep_data" /\ AllParseable) =>
        /\ observed_dates # <<>>
        /\ Range(observed_dates[1]) = InputDates
        /\ Len(observed_dates[1]) = Cardinality(InputDates)
        /\ \A d \in InputDates :
             /\ Cardinality({i \in DOMAIN dau : dau[i].idx = d}) = 1
             /\ \A i \in DOMAIN dau :
                  dau[i].idx = d => dau[i].val = Cardinality(IdsOn(d))

\* C2: in the rows prep_data builds, a row is flagged observed exactly when its
\* date is one of the dates of the file; the entries the extrapolation appended
\* are the rows flagged not observed.
C2_ObservedIffInputDate ==
    data_prepared # <<>> =>
        /\ \A i \in DOMAIN data_prepared[1] :
             data_prepared[1][i].observed <=>
                 (data_prepared[1][i].year = 2021
                  /\ Ordinal(data_prepared[1][i]) \in InputDates)
        /\ \A i \in DOMAIN data_prepared[1] :
             data_prepared[1][i].observed <=> i <= Len(GroupByNunique(data))

C2_Witness ==
    /\ data_prepared # <<>>
    /\ \E i, j \in DOMAIN data_prepared[1] :
         data_prepared[1][i].observed /\ ~data_prepared[1][j].observed

\* The labels of a Series.
Labels(q) == {q[i].idx : i \in DOMAIN q}

MaxOf(S) == CHOOSE a \in S : \A b \in S : b <= a

\* C3: a call of interpolate on a non-empty series with at least poly_n + 1
\* entries returns the entries of the series unchanged plus exactly `days` new
\* entries, dated the 1st, ..., days-th day after the last date of the series.
C3_ExactlyTheNextDays ==
    (ipc # "call" /\ s0 # <<>> /\ Len(s0) >= poly_n + 1) =>
        /\ ret # <<>>
        /\ Len(ret[1]) = Len(s0) + days
        /\ Range(s0) \subseteq Range(ret[1])
        /\ Labels(ret[1]) =
             Labels(s0) \cup {MaxOf(Labels(s0)) + i : i \in 1..days}

\* C4: a call of interpolate for at least one day on a series of fewer than
\* poly_n + 1 entries fails:
\* it raises, returns nothing and appends no entry to the series.
C4_TooFewPointsFails ==
    (ipc # "call" /\ days >= 1 /\ Len(s0) < poly_n + 1) =>
        /\ raised # "none"
        /\ ret = <<>>
        /\ Len(s) = Len(s0)

\* C5: when a date of the file does not parse, prep_data ends with the
\* date-format error (a ValueError) raised to its caller, having logged nothing
\* as handled and set no data_prepared, and the script stops there.
C5_DateErrorFailsFast ==
    (pc # "prep_data" /\ ~AllParseable) =>
        /\ exc = "ValueError"
        /\ pc = "crashed"
        /\ data_prepared = <<>>
        /\ table = <<>>

\* C6: for the series 2021-01-01: 3, 2021-01-02: 5, 2021-01-03: 4 with degree 1
\* and horizon 1, the fitted line has intercept 3.5 and slope 0.5 (it takes 3.5
\* at offset 0 and 4 at offset 1), the count predicted for 2021-01-04 is 5, and
\* the rows are (2021,1,1,true,3), (2021,1,2,true,5), (2021,1,3,true,4),
\* (2021,1,4,false,5) in that order.
C6_Scenario ==
    (ipc = "end" /\ s0 = ScenarioSeries /\ days = 1 /\ poly_n = 1) =>
        /\ raised = "none"
        /\ 2 * PolyVal(<<0, 1, 2>>, <<3, 5, 4>>, poly_n, 0)[1]
             = 7 * PolyVal(<<0, 1, 2>>, <<3, 5, 4>>, poly_n, 0)[2]
        /\ PolyVal(<<0, 1, 2>>, <<3, 5, 4>>, poly_n, 1)[1]
             = 4 * PolyVal(<<0, 1, 2>>, <<3, 5, 4>>, poly_n, 1)[2]
        /\ ret = <<ScenarioSeries \o <<[idx |-> 4, val |-> 5]>> >>
        /\ rows = <<[year |-> 2021, month |-> 1, day |-> 1, observed |-> TRUE, count |-> 3],
                    [year |-> 2021, month |-> 1, day |-> 2, observed |-> TRUE, count |-> 5],
                    [year |-> 2021, month |-> 1, day |-> 3, observed |-> TRUE, count |-> 4],
                    [year |-> 2021, month |-> 1, day |-> 4, observed |-> FALSE, count |-> 5]>>

C6_Witness ==
    ipc = "end" /\ s0 = ScenarioSeries /\ days = 1 /\ poly_n = 1 /\ Len(rows) = 4

\* C7: whatever rows the file holds, when prep_data's call of interpolate has
\* returned and appended its prediction, the series dau is strictly ascending by
\* date: the original entries in chronological order, then the predicted date,
\* later than every original date.
C7_ReturnedSeriesAscending ==
    (pc # "prep_data" /\ AllParseable /\ exc = "none"
       /\ Len(dau) > Len(observed_dates[1])) =>
        /\ \A i, j \in DOMAIN dau : i < j => dau[i].idx < dau[j].idx
        /\ \A i \in DOMAIN dau :
             i > Len(observed_dates[1]) => \A d \in InputDates : dau[i].idx > d

\* C8: prep_data builds exactly one row per entry of the extended series dau, in
\* the order of the series (ascending dates): row i holds the year, month and
\* day of the date of entry i, its count, and its flag (whether the date is one
\* of observed_dates).
C8_OneRowPerEntry ==
    data_prepared # <<>> =>
        /\ Len(data_prepared[1]) = Len(dau)
        /\ \A i \in DOMAIN dau :
             /\ data_prepared[1][i].year = 2021
             /\ Ordinal(data_prepared[1][i]) = dau[i].idx
             /\ data_prepared[1][i].month \in 1..12
             /\ data_prepared[1][i].day \in 1..MonthLen[data_prepared[1][i].month]
             /\ data_prepared[1][i].count = dau[i].val
             /\ data_prepared[1][i].observed = (dau[i].idx \in Range(observed_dates[1]))
        /\ \A i, j \in DOMAIN data_prepared[1] :
             i < j => Ordinal(data_prepared[1][i]) <= Ordinal(data_prepared[1][j])

C8_Witness ==
    /\ data_prepared # <<>>
    /\ Len(data_prepared[1]) >= 3
    /\ \E i \in DOMAIN data_prepared[1] : ~data_prepared[1][i].observed

\* C9: a call of interpolate leaves the series the caller passed as it was,
\* neither reordered nor extended.
C9_ArgumentUnchanged ==
    ipc # "call" => s = s0

\* C10: when the fit of prep_data is not finite (the file holds one calendar
\* date only, so that every offset is 0), the condition reaches the caller as an
\* error or as a logged warning of its own (not as the date-format error), and
\* prep_data does not build rows without any prediction while logging the run as
\* complete.
C10_NonFiniteFitSurfaced ==
    (pc # "prep_data" /\ AllParseable /\ Cardinality(InputDates) = 1) =>
        /\ \/ exc # "none"
           \/ \E i \in DOMAIN log : /\ log[i].level \in {"WARNING", "ERROR"}
                                    /\ log[i].msg # "date format error"
        /\ ~(/\ data_prepared # <<>>
             /\ \A i \in DOMAIN data_prepared[1] : data_prepared[1][i].observed
             /\ \E i \in DOMAIN log : log[i].msg = "data processing complete")

====
